---- MODULE Spec2Model ----
(***************************************************************************)
(* Model of the matching / classification core of IdealFunctionMapping     *)
(* (src/functions/functions.py): Functions.map_training_to_ideal_functions, *)
(* Functions.create_mapped_dataframes and Functions.map_test_data.         *)
(*                                                                         *)
(* Numbers are exact integers (one unit stands for one step of the data's  *)
(* resolution, e.g. 0.05).  A float that may be NaN is a sequence of at    *)
(* most one integer: <<>> is NaN, <<v>> is the number v.  A table is a     *)
(* record [x, names, cols]: the x column, the names of the y columns in    *)
(* column order, and the y columns in the same order.                      *)
(***************************************************************************)
EXTENDS Integers, Sequences, FiniteSets, TLC

VARIABLES pc, training_data, ideal_functions, mappings, mapped_dataframes,
          test_data, mapped_test_data, error,
          db, session, loaded, fetched

\* The DatabaseManager's side: the training_data table of the database, the
\* objects the session holds, the dataframe of the most recent
\* load_training_data call and the list the most recent fetch_data returned.
dbvars == <<db, session, loaded, fetched>>

vars == <<pc, training_data, ideal_functions, mappings, mapped_dataframes,
          test_data, mapped_test_data, error, dbvars>>

\* ------------------------------------------------------------------ bounds
\* The y values are bounded by MaxVal and the test points of a call by
\* MaxTest; the numbers of rows and of series of a table are those of the
\* shapes listed with the inputs below.
\* Largest magnitude of a y value of the training and candidate tables.
MaxVal == 1
\* Largest number of test points of one map_test_data call.
MaxTest == 2

\* y values of the candidate table and of the training table.
Val == (0 - MaxVal)..MaxVal
TrainVal == 0..MaxVal

\* Python's None, as a column name.
None == "None"
\* pandas' NaN.
NaN == <<>>

\* ----------------------------------------------------------------- helpers
Iota(n) == [i \in 1..n |-> i]
Reverse(s) == [i \in 1..Len(s) |-> s[Len(s) + 1 - i]]
Shift(s) == [i \in 1..Len(s) |-> s[i] + 1]
SeqsOfLen(S, n) == [1..n -> S]
SeqsUpTo(S, lo, hi) == UNION {SeqsOfLen(S, n) : n \in lo..hi}
Max2(a, b) == IF a >= b THEN a ELSE b
Abs(a) == IF a < 0 THEN 0 - a ELSE a

\* The y column called name of table t (the first one, as pandas' lookup of a
\* unique label).
Col(t, name) == t.cols[CHOOSE i \in 1..Len(t.names) : t.names[i] = name]

\* ------------------------------------------ map_training_to_ideal_functions
\* numpy: train_values - ideal_values.  Equal lengths subtract row by row, a
\* length-1 array is broadcast over the other, any other pair of lengths is
\* the ValueError of operands that could not be broadcast together.
CanBroadcast(a, b) == Len(a) = Len(b) \/ Len(a) = 1 \/ Len(b) = 1

ArraySub(a, b) ==
    [i \in 1..Max2(Len(a), Len(b)) |->
        a[IF Len(a) = 1 THEN 1 ELSE i] - b[IF Len(b) = 1 THEN 1 ELSE i]]

RECURSIVE SumSq(_)
SumSq(s) == IF s = <<>> THEN 0 ELSE s[1] * s[1] + SumSq(Tail(s))

RECURSIVE SumAbs(_)
SumAbs(s) == IF s = <<>> THEN 0 ELSE Abs(s[1]) + SumAbs(Tail(s))

\* Variant: the sum of the absolute differences, not of their squares.
squared_diffAbs(train_values, ideal_values) == SumAbs(ArraySub(train_values, ideal_values))

\* ((train_values - ideal_values) ** 2).sum()
squared_diff(train_values, ideal_values) == SumSq(ArraySub(train_values, ideal_values))

\* best_fit_function = None; best_fit_deviation = float("inf")
NoBest == [fn |-> None, inf |-> TRUE, dev |-> 0]

\* Variant: every candidate replaces the best fit, so the last one stays.
ImprovesAlways(sd, best) == TRUE

\* Variant: <= in place of <.
ImprovesLeq(sd, best) == best.inf \/ sd <= best.dev

\* if squared_diff < best_fit_deviation
Improves(sd, best) == best.inf \/ sd < best.dev

\* The candidate loop of one training column, from candidate k on, with the
\* running best so far.  A pair of lengths numpy cannot subtract ends the call.
RECURSIVE IdealLoop(_, _, _, _)
IdealLoop(train_values, ideal, k, best) ==
    IF k > Len(ideal.names) THEN [ok |-> TRUE, best |-> best]
    ELSE IF ~CanBroadcast(train_values, ideal.cols[k]) THEN [ok |-> FALSE, best |-> best]
    ELSE LET sd == squared_diff(train_values, ideal.cols[k])
         IN  IdealLoop(train_values, ideal, k + 1,
                       IF Improves(sd, best)
                       THEN [fn |-> ideal.names[k], inf |-> FALSE, dev |-> sd]
                       ELSE best)

\* Variant: the best fit of the previous training column is carried over.
StartBestKeep(prev) == prev

\* What the candidate loop of the next training column starts from, given
\* what the previous column's loop ended with: the code resets both variables
\* inside the training loop (lines 46-47).
StartBest(prev) == NoBest

\* The training loop from column j on: the rows appended so far and the best
\* of the previous column.
RECURSIVE TrainLoop(_, _, _, _, _)
TrainLoop(training, ideal, j, rows, prev) ==
    IF j > Len(training.names) THEN [ok |-> TRUE, rows |-> rows]
    ELSE LET r == IdealLoop(training.cols[j], ideal, 1, StartBest(prev))
         IN  IF ~r.ok THEN [ok |-> FALSE, rows |-> <<>>]
             ELSE TrainLoop(training, ideal, j + 1,
                            Append(rows, [TrainingData |-> training.names[j],
                                          IdealFunction |-> r.best.fn]),
                            r.best)

map_training_to_ideal_functions(training, ideal) ==
    TrainLoop(training, ideal, 1, <<>>, NoBest)

\* ------------------------------------------------- create_mapped_dataframes
\* A float cell of a dataframe: the number v, or NaN.
F(v) == <<v>>
IsNaN(f) == f = NaN

\* Variant: the operands of the subtraction swapped.
FSubReversed(a, b) == IF IsNaN(a) \/ IsNaN(b) THEN NaN ELSE F(b[1] - a[1])

\* Series subtraction, cell by cell: NaN where either side is NaN.
FSub(a, b) == IF IsNaN(a) \/ IsNaN(b) THEN NaN ELSE F(a[1] - b[1])

\* Assigning a column of a table to a dataframe whose index is 0..n-1: pandas
\* aligns on the row index, so rows the column lacks are NaN and rows beyond
\* n are dropped.
AlignTo(n, col) == [i \in 1..n |-> IF i <= Len(col) THEN F(col[i]) ELSE NaN]

\* Lines 110-114: the dataframe of one mapping row.
mapped_dataframe(training, ideal, training_data_column, ideal_function_column) ==
    LET n       == Len(training.x)
        y_ideal == AlignTo(n, Col(ideal, ideal_function_column))
        y_train == AlignTo(n, Col(training, training_data_column))
    IN  [x       |-> training.x,
         y_ideal |-> y_ideal,
         y_train |-> y_train,
         y_diff  |-> [i \in 1..n |-> FSub(y_ideal[i], y_train[i])]]

Names(t) == {t.names[i] : i \in 1..Len(t.names)}
Keys(d) == {d[i].name : i \in 1..Len(d)}

\* mapped_dataframes[key] = df on a Python dict: a new key goes last, an
\* existing key keeps its place and gets the new value.
DictSet(d, key, df) ==
    IF key \in Keys(d)
    THEN [i \in 1..Len(d) |-> IF d[i].name = key THEN [name |-> key, df |-> df] ELSE d[i]]
    ELSE Append(d, [name |-> key, df |-> df])

\* Variant: a row whose candidate is no column of the candidate table ends
\* the call with an error.
RECURSIVE BuildLoopRaising(_, _, _, _, _)
BuildLoopRaising(maps, ideal, training, k, d) ==
    IF k > Len(maps) THEN [ok |-> TRUE, dict |-> d]
    ELSE IF maps[k].IdealFunction \notin Names(ideal) \/ maps[k].TrainingData \notin Names(training)
         THEN [ok |-> FALSE, dict |-> <<>>]
    ELSE BuildLoopRaising(maps, ideal, training, k + 1,
                          DictSet(d, maps[k].IdealFunction,
                                  mapped_dataframe(training, ideal, maps[k].TrainingData,
                                                   maps[k].IdealFunction)))

\* The loop over the mapping rows from row k on.  A row whose candidate is no
\* column of the candidate table is passed over (line 106-107); a row whose
\* training column is no column of the training table raises KeyError.
RECURSIVE BuildLoop(_, _, _, _, _)
BuildLoop(maps, ideal, training, k, d) ==
    IF k > Len(maps) THEN [ok |-> TRUE, dict |-> d]
    ELSE IF maps[k].IdealFunction \notin Names(ideal)
         THEN BuildLoop(maps, ideal, training, k + 1, d)
    ELSE IF maps[k].TrainingData \notin Names(training)
         THEN [ok |-> FALSE, dict |-> <<>>]
    ELSE BuildLoop(maps, ideal, training, k + 1,
                   DictSet(d, maps[k].IdealFunction,
                           mapped_dataframe(training, ideal, maps[k].TrainingData,
                                            maps[k].IdealFunction)))

create_mapped_dataframes(maps, ideal, training) == BuildLoop(maps, ideal, training, 1, <<>>)

\* ------------------------------------------------------------ map_test_data
\* Series.max(): the largest cell that is not NaN, NaN when there is none.
RECURSIVE SeriesMax(_)
SeriesMax(s) ==
    IF s = <<>> THEN NaN
    ELSE LET m == SeriesMax(Tail(s))
         IN  IF IsNaN(s[1]) THEN m
             ELSE IF IsNaN(m) THEN s[1]
             ELSE F(Max2(s[1][1], m[1]))

\* deviation_train = dataframe["y_diff"].max()
deviation_train(dataframe) == SeriesMax(dataframe.y_diff)

\* The rows of the dataframe whose x equals x_value, in row order.
RowsAt(dataframe, x_value) == {i \in 1..Len(dataframe.x) : dataframe.x[i] = x_value}

\* deviation_test = np.abs(y_value - <y_ideal of the first row at x_value>)
deviation_test(dataframe, x_value, y_value) ==
    LET i == CHOOSE r \in RowsAt(dataframe, x_value) : \A q \in RowsAt(dataframe, x_value) : r <= q
    IN  IF IsNaN(dataframe.y_ideal[i]) THEN NaN ELSE F(Abs(y_value - dataframe.y_ideal[i][1]))

\* Variant: > in place of >=.
AcceptsStrict(t, d) == ~IsNaN(t) /\ ~IsNaN(d) /\ t[1] >= 0 /\ t[1] * t[1] > 2 * d[1] * d[1]

\* deviation_train >= deviation_test * np.sqrt(2), in exact arithmetic: with
\* d >= 0, t >= d * sqrt(2) is t >= 0 and t * t >= 2 * d * d.  A comparison
\* with NaN is false.
Accepts(t, d) == ~IsNaN(t) /\ ~IsNaN(d) /\ t[1] >= 0 /\ t[1] * t[1] >= 2 * d[1] * d[1]

\* Variant: the smaller test deviation wins.
BeatsSmaller(d, existing) == IsNaN(existing) \/ d[1] < existing[1]

\* np.isnan(existing_max_deviation) or deviation_test > existing_max_deviation
\* (reached only with a deviation_test that is a number).
Beats(d, existing) == IsNaN(existing) \/ d[1] > existing[1]

\* Variant: the first profile is the fit until another one is accepted.
NoFitFirst(d) ==
    [existing_max_deviation |-> NaN,
     best_fit_function |-> IF d = <<>> THEN None ELSE d[1].name,
     best_fit_deviation |-> NaN]

\* Lines 150-152: the three locals before the loop over the profiles d, none
\* of which they depend on.
NoFit(d) ==
    [existing_max_deviation |-> NaN, best_fit_function |-> None, best_fit_deviation |-> NaN]

\* Variant: the test point's own deviation is kept.
best_fit_deviationOfTest(dtrain, dtest) == dtest

\* Line 162: best_fit_deviation = deviation_train, the value that line 167
\* writes to the Deviation column.
best_fit_deviation(dtrain, dtest) == dtrain

\* The loop over the profiles for one test point, from profile k on.  A
\* profile with no row at x_value makes .values[0] raise IndexError.
RECURSIVE ProfileLoop(_, _, _, _, _)
ProfileLoop(x_value, y_value, d, k, st) ==
    IF k > Len(d) THEN [ok |-> TRUE, st |-> st]
    ELSE IF RowsAt(d[k].df, x_value) = {} THEN [ok |-> FALSE, st |-> st]
    ELSE LET dtrain == deviation_train(d[k].df)
             dtest  == deviation_test(d[k].df, x_value, y_value)
         IN  ProfileLoop(x_value, y_value, d, k + 1,
                 IF Accepts(dtrain, dtest) /\ Beats(dtest, st.existing_max_deviation)
                 THEN [existing_max_deviation |-> dtest,
                       best_fit_function |-> d[k].name,
                       best_fit_deviation |-> best_fit_deviation(dtrain, dtest)]
                 ELSE st)

\* The loop over the test points from point k on, with the rows appended so far.
RECURSIVE TestLoop(_, _, _, _)
TestLoop(tests, d, k, rows) ==
    IF k > Len(tests) THEN [ok |-> TRUE, rows |-> rows]
    ELSE LET r == ProfileLoop(tests[k].x, tests[k].y, d, 1, NoFit(d))
         IN  IF ~r.ok THEN [ok |-> FALSE, rows |-> <<>>]
             ELSE TestLoop(tests, d, k + 1,
                           Append(rows, [x |-> tests[k].x, y |-> tests[k].y,
                                         Deviation |-> r.st.best_fit_deviation,
                                         IdealFunction |-> r.st.best_fit_function]))

map_test_data(tests, d) == TestLoop(tests, d, 1, <<>>)

\* ---------------------------------------------------------- DatabaseManager
\* A nullable Float column holds NULL (<<>>) or a number (<<v>>).  The table
\* training_data is [exists, rows], its rows in rowid order, each row
\* [x, y] with y the four columns y1..y4.  A dataframe handed to
\* load_training_data is [x, cols].
NULL == <<>>
DbX == {1, 2}
DbVal == {0, 1}
YColumns == 1..4

NoTable == [exists |-> FALSE, rows |-> <<>>]
EmptySession == [k \in DbX |-> <<>>]
NoFrame == [x |-> <<>>, cols |-> <<>>]

\* Variant: the table is never dropped.
DropIfExistsNever(t) == t

\* Lines 110-111: if self.engine.has_table(table_name): drop.
DropIfExists(t) == IF t.exists THEN NoTable ELSE t

\* Line 114: Table.create, which fails on a table that exists.
CanCreate(t) == ~t.exists
CreateTable(t) == [exists |-> TRUE, rows |-> <<>>]

\* Line 123: kwargs = {f'y{i}': value for i, value in enumerate(row[1:], start=1)};
\* the columns the dataframe lacks stay NULL.
RowOf(df, i) ==
    [x |-> df.x[i],
     y |-> [c \in YColumns |-> IF c <= Len(df.cols) THEN <<df.cols[c][i]>> ELSE NULL]]

\* Lines 120-125: the rows are inserted in dataframe order, from row i on;
\* a second row with the same primary key x fails the transaction.
RECURSIVE InsertRows(_, _, _)
InsertRows(rows, df, i) ==
    IF i > Len(df.x) THEN [ok |-> TRUE, rows |-> rows]
    ELSE IF \E q \in 1..Len(rows) : rows[q].x = df.x[i] THEN [ok |-> FALSE, rows |-> rows]
    ELSE InsertRows(Append(rows, RowOf(df, i)), df, i + 1)

\* Line 127: self.session.commit() expires every object of the session.
Commit(s) == [k \in DbX |-> IF s[k] = <<>> THEN <<>> ELSE <<[y |-> s[k][1].y, expired |-> TRUE]>>]

\* load_training_data: the table, the session and the error after the call.
load_training_data(t, s, df) ==
    LET dropped == DropIfExists(t)
    IN  IF ~CanCreate(dropped)
        THEN [db |-> t, session |-> s, error |-> "OperationalError"]
        ELSE LET ins == InsertRows(CreateTable(dropped).rows, df, 1)
             IN  IF ~ins.ok
                 THEN [db |-> CreateTable(dropped), session |-> s, error |-> "IntegrityError"]
                 ELSE [db |-> [exists |-> TRUE, rows |-> ins.rows], session |-> Commit(s),
                       error |-> "none"]

\* Line 192: self.session.query(TrainingData).all().  The rows come in rowid
\* order; a row whose primary key the session holds as an unexpired object
\* yields that object as it is, any other row an object loaded from the row.
ObjectFor(s, row) ==
    IF s[row.x] # <<>> /\ ~s[row.x][1].expired
    THEN [x |-> row.x, y |-> s[row.x][1].y]
    ELSE [x |-> row.x, y |-> row.y]

fetch_data(t, s) == [i \in 1..Len(t.rows) |-> ObjectFor(s, t.rows[i])]

\* The session after the query: the returned objects are loaded, the others
\* stay as they were.
SessionAfterFetch(t, s) ==
    [k \in DbX |->
        IF \E i \in 1..Len(t.rows) : t.rows[i].x = k
        THEN <<[y |-> ObjectFor(s, t.rows[CHOOSE i \in 1..Len(t.rows) : t.rows[i].x = k]).y,
                expired |-> FALSE]>>
        ELSE s[k]]

\* The dataframes loaded: unique x values, one, two or four y columns.
DbShapes == {[xs |-> <<1>>, n |-> 1], [xs |-> <<2>>, n |-> 1], [xs |-> <<1>>, n |-> 4],
             [xs |-> <<1, 2>>, n |-> 1], [xs |-> <<2, 1>>, n |-> 1],
             [xs |-> <<1, 2>>, n |-> 2]}
DbFrames ==
    UNION {{[x |-> sh.xs, cols |-> cs] : cs \in SeqsOfLen(SeqsOfLen(DbVal, Len(sh.xs)), sh.n)}
              : sh \in DbShapes}

\* The database side at rest, for the runs that do not touch it.
DbUnused ==
    /\ db = NoTable
    /\ session = EmptySession
    /\ loaded = [called |-> FALSE, df |-> NoFrame]
    /\ fetched = <<>>

\* A DatabaseManager on a database whose training_data table may exist
\* (create_tables) or not.
InitDatabase ==
    /\ pc = "db"
    /\ training_data = [x |-> <<>>, names |-> <<>>, cols |-> <<>>]
    /\ ideal_functions = [x |-> <<>>, names |-> <<>>, cols |-> <<>>]
    /\ mappings = <<>>
    /\ mapped_dataframes = <<>>
    /\ test_data = <<>>
    /\ mapped_test_data = <<>>
    /\ error = "none"
    /\ db \in {NoTable, CreateTable(NoTable)}
    /\ session = EmptySession
    /\ loaded = [called |-> FALSE, df |-> NoFrame]
    /\ fetched = <<>>

\* db_manager.load_training_data("training_data", training_data)
LoadTrainingData ==
    /\ pc \in {"db", "db_loaded", "db_fetched"}
    /\ \E df \in DbFrames :
          LET r == load_training_data(db, session, df)
          IN  /\ db' = r.db
              /\ session' = r.session
              /\ error' = r.error
              /\ loaded' = [called |-> TRUE, df |-> df]
    /\ pc' = "db_loaded"
    /\ UNCHANGED <<training_data, ideal_functions, mappings, mapped_dataframes, test_data,
                   mapped_test_data, fetched>>

\* db_manager.fetch_data(TrainingData); the query fails on a missing table.
FetchData ==
    /\ pc \in {"db", "db_loaded", "db_fetched"}
    /\ IF db.exists
       THEN /\ fetched' = fetch_data(db, session)
            /\ session' = SessionAfterFetch(db, session)
            /\ error' = "none"
            /\ pc' = "db_fetched"
       ELSE /\ error' = "OperationalError"
            /\ pc' = "db"
            /\ UNCHANGED <<fetched, session>>
    /\ UNCHANGED <<training_data, ideal_functions, mappings, mapped_dataframes, test_data,
                   mapped_test_data, db, loaded>>

NextDatabase == LoadTrainingData \/ FetchData

SpecDatabase == InitDatabase /\ [][NextDatabase]_vars

\* ------------------------------------------------------------------ inputs
\* The tables of a run.  The training table has one or two series over the
\* rows 1..n, n being 1 or 2, or one series over the rows 1..3; the candidate
\* table has none, one or two series over 1 or 2 rows, whose x column is
\* 1..n, the same in reverse order, or 2..n+1.
Y1 == <<"y1">>
Y1Y2 == <<"y1", "y2">>
TrainShapes == {[n |-> 1, names |-> Y1], [n |-> 1, names |-> Y1Y2],
                [n |-> 2, names |-> Y1], [n |-> 2, names |-> Y1Y2],
                [n |-> 3, names |-> Y1]}
IdealShapes == {[n |-> 1, names |-> <<>>], [n |-> 1, names |-> Y1], [n |-> 1, names |-> Y1Y2],
                [n |-> 2, names |-> <<>>], [n |-> 2, names |-> Y1], [n |-> 2, names |-> Y1Y2]}

Tables(shapes, xsOf, V) ==
    UNION {UNION {
        {[x |-> xs, names |-> sh.names, cols |-> cs]
            : cs \in SeqsOfLen(SeqsOfLen(V, sh.n), Len(sh.names))}
        : xs \in xsOf[sh.n]} : sh \in shapes}

TrainX == [n \in 1..3 |-> {Iota(n)}]
IdealX == [n \in 1..3 |-> {Iota(n), Reverse(Iota(n)), Shift(Iota(n))}]

TrainingTables == Tables(TrainShapes, TrainX, TrainVal)
IdealTables == Tables(IdealShapes, IdealX, Val)

\* The profiles handed to map_test_data directly: dataframes as
\* create_mapped_dataframes builds them, over the rows 1..2 or 2..3.
ProfileX == {<<1, 2>>, <<2, 3>>}
ProfileIdealVal == {0, 1}
ProfileTrainVal == {0 - 1, 1}

ProfileFrames ==
    {mapped_dataframe([x |-> xs, names |-> <<"t">>, cols |-> <<t>>],
                      [x |-> xs, names |-> <<"c">>, cols |-> <<c>>], "t", "c")
        : xs \in ProfileX, c \in SeqsOfLen(ProfileIdealVal, 2), t \in SeqsOfLen(ProfileTrainVal, 2)}

ProfileDicts ==
    UNION {{[i \in 1..Len(ns) |-> [name |-> ns[i], df |-> fs[i]]]
               : fs \in SeqsOfLen(ProfileFrames, Len(ns))} : ns \in {<<>>, Y1, Y1Y2}}

TestX == {1, 2, 3}
TestY == {0, 1}
TestPoints == [x : TestX, y : TestY]
TestBatches == SeqsUpTo(TestPoints, 1, MaxTest)

\* ------------------------------------------- main.run: select, then build
Init ==
    /\ pc = "select"
    /\ training_data \in TrainingTables
    /\ ideal_functions \in IdealTables
    /\ mappings = <<>>
    /\ mapped_dataframes = <<>>
    /\ test_data = <<>>
    /\ mapped_test_data = <<>>
    /\ error = "none"
    /\ DbUnused

\* mapping = Functions.map_training_to_ideal_functions(training_data, ideal_functions)
Select ==
    /\ pc = "select"
    /\ LET r == map_training_to_ideal_functions(training_data, ideal_functions)
       IN  /\ mappings' = r.rows
           /\ error' = IF r.ok THEN "none" ELSE "ValueError"
           /\ pc' = IF r.ok THEN "selected" ELSE "failed"
    /\ UNCHANGED <<training_data, ideal_functions, mapped_dataframes, test_data,
                   mapped_test_data>>
    /\ UNCHANGED dbvars

\* mapped_dataframes = Functions.create_mapped_dataframes(mapping, ideal_functions, training_data)
Build ==
    /\ pc = "selected"
    /\ LET r == create_mapped_dataframes(mappings, ideal_functions, training_data)
       IN  /\ mapped_dataframes' = r.dict
           /\ error' = IF r.ok THEN "none" ELSE "KeyError"
           /\ pc' = IF r.ok THEN "built" ELSE "failed"
    /\ UNCHANGED <<training_data, ideal_functions, mappings, test_data, mapped_test_data>>
    /\ UNCHANGED dbvars

Next == Select \/ Build

Spec == Init /\ [][Next]_vars

\* ------------------------- create_mapped_dataframes on a given mapping
\* One-row tables of two training series and one or two candidates over the
\* same x, and a mapping of one or two rows written by the caller, whose
\* names may be no column of either table.
BuildTrainingTables == Tables({[n |-> 1, names |-> Y1Y2]}, TrainX, TrainVal)
BuildIdealTables == Tables({[n |-> 1, names |-> Y1], [n |-> 1, names |-> Y1Y2]}, TrainX, Val)
MappingRows == [TrainingData : {"y1", "y2", "y3"}, IdealFunction : {"y1", "y2", "y9", None}]
GivenMappings == SeqsUpTo(MappingRows, 1, 2)

InitBuild ==
    /\ pc = "selected"
    /\ training_data \in BuildTrainingTables
    /\ ideal_functions \in BuildIdealTables
    /\ mappings \in GivenMappings
    /\ mapped_dataframes = <<>>
    /\ test_data = <<>>
    /\ mapped_test_data = <<>>
    /\ error = "none"
    /\ DbUnused

NextBuild == Build

SpecBuild == InitBuild /\ [][NextBuild]_vars

\* --------------------------------------- map_test_data on given profiles
EmptyTable == [x |-> <<>>, names |-> <<>>, cols |-> <<>>]

InitClassify ==
    /\ pc = "classify"
    /\ training_data = EmptyTable
    /\ ideal_functions = EmptyTable
    /\ mappings = <<>>
    /\ mapped_dataframes \in ProfileDicts
    /\ test_data \in TestBatches
    /\ mapped_test_data = <<>>
    /\ error = "none"
    /\ DbUnused

\* mapped_test_data = Functions.map_test_data(test_data, mapped_dataframes)
Classify ==
    /\ pc = "classify"
    /\ LET r == map_test_data(test_data, mapped_dataframes)
       IN  /\ mapped_test_data' = r.rows
           /\ error' = IF r.ok THEN "none" ELSE "IndexError"
           /\ pc' = IF r.ok THEN "classified" ELSE "failed"
    /\ UNCHANGED <<training_data, ideal_functions, mappings, mapped_dataframes, test_data>>
    /\ UNCHANGED dbvars

NextClassify == Classify

SpecClassify == InitClassify /\ [][NextClassify]_vars

\* ------------- either function on its inputs: selection, or classification
InitOrder == Init \/ InitClassify

NextOrder == Select \/ Classify

SpecOrder == InitOrder /\ [][NextOrder]_vars

\* ------------------------------------------------------------------ claims
\* The series called name of table t at the x value xv (a join on x, not on
\* the row number).
ValueAtX(t, name, xv) == Col(t, name)[CHOOSE i \in 1..Len(t.x) : t.x[i] = xv]

\* SSE(T, C) over the x values of the training table.
SSE(tname, cname) ==
    SumSq([i \in 1..Len(training_data.x) |->
              ValueAtX(training_data, tname, training_data.x[i])
            - ValueAtX(ideal_functions, cname, training_data.x[i])])

\* Position of a candidate in the column order of the candidate table.
IdealIndex(cname) == CHOOSE k \in 1..Len(ideal_functions.names) : ideal_functions.names[k] = cname

\* The two tables have the same x column, row for row.
SameDomain == training_data.x = ideal_functions.x

\* map_training_to_ideal_functions has returned its mapping.
Selected == pc \in {"selected", "built"}

\* C1: over a shared x domain and a non-empty candidate table, every training
\* series is mapped to a candidate whose SSE is not larger than that of any
\* other candidate.
C1_MinimalSSE ==
    (Selected /\ SameDomain /\ ideal_functions.names # <<>>) =>
        \A j \in 1..Len(mappings) :
            /\ mappings[j].IdealFunction \in Names(ideal_functions)
            /\ \A c \in Names(ideal_functions) :
                   SSE(mappings[j].TrainingData, mappings[j].IdealFunction)
                       <= SSE(mappings[j].TrainingData, c)

\* C1's case: with two rows and two candidates of different SSE, the second
\* candidate is the closer one and is the one selected.
C1_Witness ==
    /\ pc = "selected" /\ SameDomain /\ Len(training_data.x) = 2
    /\ Len(ideal_functions.names) = 2
    /\ mappings[1].IdealFunction = "y2"
    /\ SSE("y1", "y2") < SSE("y1", "y1")

\* C6: among candidates of the same minimal SSE the first in the column order
\* of the candidate table is selected: no candidate before the selected one
\* has an SSE as small as the selected one's.
C6_FirstOfTies ==
    (Selected /\ SameDomain /\ ideal_functions.names # <<>>) =>
        \A j \in 1..Len(mappings) :
            \A k \in 1..Len(ideal_functions.names) :
                k < IdealIndex(mappings[j].IdealFunction) =>
                    SSE(mappings[j].TrainingData, ideal_functions.names[k])
                        > SSE(mappings[j].TrainingData, mappings[j].IdealFunction)

\* C6's case: two different candidates tie on the minimal SSE and the first
\* is selected.
C6_Witness ==
    /\ pc = "selected" /\ SameDomain /\ Len(ideal_functions.names) = 2
    /\ ideal_functions.cols[1] # ideal_functions.cols[2]
    /\ SSE("y1", "y1") = SSE("y1", "y2")
    /\ mappings[1].IdealFunction = "y1"

\* The training table reduced to its j-th series.
OnlySeries(j) ==
    [x |-> training_data.x, names |-> <<training_data.names[j]>>,
     cols |-> <<training_data.cols[j]>>]

\* C10: the mapping has one row per training series, in the column order of
\* the training table, and the candidate of a series is the one selected when
\* that series is the only one of the training table.
C10_OneRowPerSeries ==
    Selected =>
        /\ Len(mappings) = Len(training_data.names)
        /\ \A j \in 1..Len(mappings) :
               /\ mappings[j].TrainingData = training_data.names[j]
               /\ mappings[j].IdealFunction =
                      map_training_to_ideal_functions(OnlySeries(j), ideal_functions)
                          .rows[1].IdealFunction

\* C10's case: two training series, the second one mapped to another
\* candidate than the first, and to a worse fit than the first one's.
C10_Witness ==
    /\ pc = "selected" /\ SameDomain /\ Len(mappings) = 2
    /\ mappings[1].IdealFunction = "y2" /\ mappings[2].IdealFunction = "y1"
    /\ SSE("y2", "y1") > SSE("y1", "y2")

\* The last mapping row that names the candidate cname, the one whose
\* dataframe the dictionary keeps.
LastRowFor(cname) ==
    CHOOSE j \in 1..Len(mappings) :
        /\ mappings[j].IdealFunction = cname
        /\ \A q \in 1..Len(mappings) : mappings[q].IdealFunction = cname => q <= j

\* C2: over a shared x domain, the residual a profile stores at each x is the
\* candidate's y at x minus the training series' y at x.
C2_ResidualSign ==
    (pc = "built" /\ SameDomain) =>
        \A e \in 1..Len(mapped_dataframes) :
            LET p == mapped_dataframes[e]
                t == mappings[LastRowFor(p.name)].TrainingData
            IN  /\ p.df.x = training_data.x
                /\ \A i \in 1..Len(p.df.x) :
                       p.df.y_diff[i] = F(ValueAtX(ideal_functions, p.name, p.df.x[i])
                                            - ValueAtX(training_data, t, p.df.x[i]))

\* C2's case: a profile whose residual is negative at one x and positive at
\* another.
C2_Witness ==
    /\ pc = "built" /\ SameDomain /\ Len(mapped_dataframes) >= 1
    /\ Len(mapped_dataframes[1].df.x) = 2
    /\ mapped_dataframes[1].df.y_diff[1] = F(0 - 1)
    /\ mapped_dataframes[1].df.y_diff[2] = F(1)

\* map_test_data has returned its rows / has returned or raised.
Classified == pc = "classified"
ClassifyEnded == pc \in {"classified", "failed"}

\* The profile's domain has the x value xv.
InDomain(df, xv) == \E i \in 1..Len(df.x) : df.x[i] = xv

\* The candidate's y at xv, and the test point's deviation from it.
CandidateYAt(df, xv) == df.y_ideal[CHOOSE i \in 1..Len(df.x) : df.x[i] = xv][1]
TestDeviation(df, pt) == Abs(pt.y - CandidateYAt(df, pt.x))

\* The largest absolute residual of a profile.
MaxAbsResidual(df) ==
    CHOOSE m \in {Abs(df.y_diff[i][1]) : i \in 1..Len(df.y_diff)} :
        \A i \in 1..Len(df.y_diff) : Abs(df.y_diff[i][1]) <= m

\* The tolerance map_test_data holds against a profile: the left-hand side
\* of its acceptance rule.
Tolerance(df) == deviation_train(df)[1]

\* t >= d * sqrt(2) for the small integers of the model: sqrt(2) lies
\* strictly between 1.41421 and 1.41422, and no integer t lies between
\* d * 1.41421 and d * sqrt(2).
AtLeastSqrt2Times(t, d) == 100000 * t >= 141421 * d

\* The profiles whose tolerance accepts test point k.
Eligible(k) ==
    {i \in 1..Len(mapped_dataframes) :
        /\ InDomain(mapped_dataframes[i].df, test_data[k].x)
        /\ AtLeastSqrt2Times(Tolerance(mapped_dataframes[i].df),
                             TestDeviation(mapped_dataframes[i].df, test_data[k]))}

\* C3: the tolerance map_test_data uses for a profile is the largest absolute
\* residual of the profile, so it is never negative.
C3_ToleranceIsMaxAbsResidual ==
    ClassifyEnded =>
        \A i \in 1..Len(mapped_dataframes) :
            /\ deviation_train(mapped_dataframes[i].df)
                   = F(MaxAbsResidual(mapped_dataframes[i].df))
            /\ Tolerance(mapped_dataframes[i].df) >= 0

\* C4: a test point is assigned exactly when the tolerance of some profile is
\* at least sqrt(2) times the point's deviation from that profile's
\* candidate, and then to such a profile; tolerance and deviation both 0 is
\* the case of equality.
C4_AcceptanceRule ==
    Classified =>
        \A k \in 1..Len(test_data) :
            /\ (mapped_test_data[k].IdealFunction # None) <=> (Eligible(k) # {})
            /\ mapped_test_data[k].IdealFunction # None =>
                   \E i \in Eligible(k) :
                       mapped_dataframes[i].name = mapped_test_data[k].IdealFunction

\* C4's case: equality.  The only profile has tolerance 0, the test point
\* lies on its candidate, and the point is assigned to it.
C4_Witness ==
    /\ Classified /\ Len(mapped_dataframes) = 1
    /\ Tolerance(mapped_dataframes[1].df) = 0
    /\ TestDeviation(mapped_dataframes[1].df, test_data[1]) = 0
    /\ mapped_test_data[1].IdealFunction = "y1"

\* The first of the eligible profiles of test point k that have the largest
\* deviation of the point.
FirstLargest(k) ==
    CHOOSE i \in Eligible(k) :
        \A q \in Eligible(k) :
            LET di == TestDeviation(mapped_dataframes[i].df, test_data[k])
                dq == TestDeviation(mapped_dataframes[q].df, test_data[k])
            IN  dq < di \/ (dq = di /\ i <= q)

\* C5: a test point with eligible profiles is assigned to the eligible profile
\* of the largest test deviation, the first of them in the order of the
\* profiles when several have it.
C5_LargestDeviationFirst ==
    Classified =>
        \A k \in 1..Len(test_data) :
            Eligible(k) # {} =>
                mapped_test_data[k].IdealFunction = mapped_dataframes[FirstLargest(k)].name

\* C5's case: both profiles are eligible, the point deviates more from the
\* second one's candidate, and the second one is assigned.
C5_Witness ==
    /\ Classified /\ Eligible(1) = {1, 2}
    /\ TestDeviation(mapped_dataframes[2].df, test_data[1])
           > TestDeviation(mapped_dataframes[1].df, test_data[1])
    /\ mapped_test_data[1].IdealFunction = "y2"

\* C7: a test point whose x some profile lacks and another has raises no
\* error: map_test_data returns, and the point is classified by the profiles
\* that have its x.
C7_SkipsProfileWithoutX ==
    ClassifyEnded =>
        ((\A k \in 1..Len(test_data) :
             \E i \in 1..Len(mapped_dataframes) :
                 InDomain(mapped_dataframes[i].df, test_data[k].x))
         => /\ error = "none"
            /\ Len(mapped_test_data) = Len(test_data)
            /\ \A k \in 1..Len(test_data) :
                   Eligible(k) # {} => mapped_test_data[k].IdealFunction # None)

\* C8: a test point whose x no profile has is an output row with candidate
\* None and deviation NaN, and the call returns a row for every test point.
C8_UnassignedWithoutX ==
    ClassifyEnded =>
        \A k \in 1..Len(test_data) :
            (\A i \in 1..Len(mapped_dataframes) :
                 ~InDomain(mapped_dataframes[i].df, test_data[k].x))
            => /\ error = "none"
               /\ Len(mapped_test_data) = Len(test_data)
               /\ mapped_test_data[k].IdealFunction = None
               /\ mapped_test_data[k].Deviation = NaN

\* C9: a test point whose x every profile has and that no profile accepts
\* (there may be no profile at all) is an output row with candidate None and
\* deviation NaN.
C9_UnassignedWhenNoneAccepts ==
    Classified =>
        \A k \in 1..Len(test_data) :
            ((\A i \in 1..Len(mapped_dataframes) :
                  InDomain(mapped_dataframes[i].df, test_data[k].x))
             /\ Eligible(k) = {})
            => /\ mapped_test_data[k].IdealFunction = None
               /\ mapped_test_data[k].Deviation = NaN
               /\ mapped_test_data[k].x = test_data[k].x
               /\ mapped_test_data[k].y = test_data[k].y

\* C9's case: a profile of tolerance 1 and a test point at deviation 1 from
\* its candidate, which the rule rejects; the point is unassigned.
C9_Witness ==
    /\ Classified /\ Len(mapped_dataframes) = 1
    /\ Tolerance(mapped_dataframes[1].df) = 1
    /\ TestDeviation(mapped_dataframes[1].df, test_data[1]) = 1
    /\ mapped_test_data[1].IdealFunction = None
    /\ mapped_test_data[1].Deviation = NaN

\* create_mapped_dataframes has returned or raised.
BuildEnded == pc = "built" \/ (pc = "failed" /\ error = "KeyError")

\* map_training_to_ideal_functions has returned or raised.
SelectEnded == pc # "select"

\* C11: create_mapped_dataframes returns one profile per mapping row, each
\* training series with its own residual profile, also when two training
\* series are mapped to the same candidate.
C11_OneProfilePerMapping ==
    (pc = "built" /\ SameDomain
     /\ \A j \in 1..Len(mappings) : mappings[j].IdealFunction \in Names(ideal_functions))
    => /\ Len(mapped_dataframes) = Len(mappings)
       /\ \A j \in 1..Len(mappings) :
              \E e \in 1..Len(mapped_dataframes) :
                  /\ mapped_dataframes[e].name = mappings[j].IdealFunction
                  /\ mapped_dataframes[e].df.y_train
                         = AlignTo(Len(training_data.x),
                                   Col(training_data, mappings[j].TrainingData))

\* C13: with as many rows in both tables but x columns that differ in values
\* or in order, map_training_to_ideal_functions fails and returns no mapping.
C13_DomainMismatchFails ==
    (SelectEnded
     /\ ideal_functions.names # <<>>
     /\ Len(training_data.x) = Len(ideal_functions.x)
     /\ training_data.x # ideal_functions.x)
    => /\ pc = "failed"
       /\ error # "none"
       /\ mappings = <<>>

\* C14: a candidate series and a training series of different numbers of
\* points make map_training_to_ideal_functions fail with the shape-mismatch
\* error, whatever the two lengths are, and no mapping is returned.
C14_ShapeMismatchFails ==
    (SelectEnded
     /\ ideal_functions.names # <<>>
     /\ Len(training_data.x) # Len(ideal_functions.x))
    => /\ pc = "failed"
       /\ error = "ValueError"
       /\ mappings = <<>>

\* C12: map_test_data returns one row per test point, in the order of the
\* test points, each row with the x and y of the test point at its position.
C12_OneRowPerTestPoint ==
    ClassifyEnded =>
        /\ Len(mapped_test_data) = Len(test_data)
        /\ \A k \in 1..Len(test_data) :
               /\ mapped_test_data[k].x = test_data[k].x
               /\ mapped_test_data[k].y = test_data[k].y

\* The largest residual of a profile, sign included.
LargestResidual(df) ==
    CHOOSE m \in {df.y_diff[i][1] : i \in 1..Len(df.y_diff)} :
        \A i \in 1..Len(df.y_diff) : df.y_diff[i][1] <= m

\* The profile called name.
ProfileNamed(name) ==
    mapped_dataframes[CHOOSE i \in 1..Len(mapped_dataframes) : mapped_dataframes[i].name = name].df

NamedCandidates == {mappings[j].IdealFunction : j \in 1..Len(mappings)}
UnknownCandidateRows ==
    {j \in 1..Len(mappings) : mappings[j].IdealFunction \notin Names(ideal_functions)}

PermutedIdeal ==
    [x |-> ideal_functions.x, names |-> Reverse(ideal_functions.names),
     cols |-> Reverse(ideal_functions.cols)]
PermutedProfiles == Reverse(mapped_dataframes)

\* No two candidates have the least sum of squared differences to the j-th
\* training series.
NoTieOnMinimalSSE(j) ==
    \A a, b \in 1..Len(ideal_functions.names) :
        LET sa == squared_diff(training_data.cols[j], ideal_functions.cols[a])
            sb == squared_diff(training_data.cols[j], ideal_functions.cols[b])
        IN  (a # b /\ sa = sb) =>
                \E c \in 1..Len(ideal_functions.names) :
                    squared_diff(training_data.cols[j], ideal_functions.cols[c]) < sa

\* No two eligible profiles have the same deviation of test point k.
NoTieOnTestDeviation(k) ==
    \A a, b \in Eligible(k) :
        a # b => TestDeviation(mapped_dataframes[a].df, test_data[k])
                     # TestDeviation(mapped_dataframes[b].df, test_data[k])

\* C16: with the candidate columns permuted, every training series without a
\* tie on the minimal SSE keeps its candidate; with the profiles permuted,
\* every test point without a tie among its eligible profiles keeps its
\* candidate; and a call that failed fails on the permuted input as well.
C16_OrderIndependent ==
    /\ pc = "selected" =>
           LET r == map_training_to_ideal_functions(training_data, PermutedIdeal)
           IN  /\ r.ok
               /\ \A j \in 1..Len(mappings) :
                      NoTieOnMinimalSSE(j) =>
                          r.rows[j].IdealFunction = mappings[j].IdealFunction
    /\ (pc = "failed" /\ error = "ValueError") =>
           ~map_training_to_ideal_functions(training_data, PermutedIdeal).ok
    /\ Classified =>
           LET r == map_test_data(test_data, PermutedProfiles)
           IN  /\ r.ok
               /\ \A k \in 1..Len(test_data) :
                      NoTieOnTestDeviation(k) =>
                          r.rows[k].IdealFunction = mapped_test_data[k].IdealFunction
    /\ (pc = "failed" /\ error = "IndexError") =>
           ~map_test_data(test_data, PermutedProfiles).ok

\* C16's case: two candidates of different SSE, the second one selected; in
\* the permuted table it is the first one.
C16_Witness ==
    /\ pc = "selected" /\ Len(ideal_functions.names) = 2 /\ Len(mappings) = 2
    /\ NoTieOnMinimalSSE(1) /\ NoTieOnMinimalSSE(2)
    /\ mappings[1].IdealFunction = "y2" /\ mappings[2].IdealFunction = "y1"
    /\ PermutedIdeal.names = <<"y2", "y1">>

\* C17: fetch_data after load_training_data calls returns the rows of the
\* most recent call's dataframe: as many rows, in the dataframe's order, with
\* its x and y values (the y columns it lacks being NULL), and nothing of an
\* earlier call.
C17_FetchReturnsLastLoad ==
    (pc = "db_fetched" /\ loaded.called) =>
        /\ Len(fetched) = Len(loaded.df.x)
        /\ \A i \in 1..Len(fetched) :
               /\ fetched[i].x = loaded.df.x[i]
               /\ \A c \in YColumns :
                      fetched[i].y[c] = IF c <= Len(loaded.df.cols)
                                        THEN <<loaded.df.cols[c][i]>> ELSE NULL

\* C17's case: the session still holds the object of x = 2 with y1 = 1 and
\* y2 = 1 from a fetch after an earlier call; the most recent call loaded the
\* single row x = 1, y1 = 0, and the fetch returns that row alone.
C17_Witness ==
    /\ pc = "db_fetched" /\ loaded.called
    /\ loaded.df = [x |-> <<1>>, cols |-> <<<<0>>>>]
    /\ session[2] # <<>> /\ session[2][1].y[2] = <<1>>
    /\ Len(fetched) = 1 /\ fetched[1].y[1] = <<0>>

====
